---- MODULE Spec2Model ----
(***************************************************************************)
(* Model of the AI orchestration layer of CreatorIQ                        *)
(* (packages/ai-services): AIAnalyzer.analyzeChannel with provider         *)
(* selection, cost estimate, provider-client invocation, fallback and      *)
(* usage recording, and AIAnalyzer.analyzeMultipleChannels (grouped batch  *)
(* with a join per group and a delay between groups).                      *)
(*                                                                         *)
(* A function that can throw is modelled by an operator that returns       *)
(* [ok |-> TRUE, value |-> v] or [ok |-> FALSE, error |-> message].        *)
(* An async call is one record of the sequence `calls`; its pc is the      *)
(* await it is suspended at.                                               *)
(***************************************************************************)
EXTENDS Integers, Sequences, FiniteSets, TLC

VARIABLES
  openaiService,   \* AIAnalyzer.openaiService is set (analyzer.ts:15,24-26)
  claudeService,   \* AIAnalyzer.claudeService is set (analyzer.ts:16,28-30)
  usageHistory,    \* CostTracker.usageHistory (cost-tracker.ts:27)
  now,             \* wall clock in ms (Date.now / new Date)
  mode,            \* which public entry point the caller used
  calls,           \* the analyzeChannel invocations made so far
  batch,           \* the frame of analyzeMultipleChannels
  delayLog,        \* history: value of i + concurrency at each awaited delay
  filled,          \* history: number of records the tracker held before the run
  recorded,        \* history: the records RecordUsage handed to the tracker, stamped
  budget,          \* recordUsage calls the explored run may still make
  stats,           \* value returned by the getUsageStats call just made
  store,           \* MemoryStore.store of the rate limiter (part_000:18,54)
  served,          \* number of requests the rate limiters have handled
  lastOp,          \* history: the rate limiter operation just performed
  windows,         \* history: per key, the window the latest request fell in
  unswept,         \* history: the store as it would be had cleanup never run
  client,          \* a provider client call made directly by a caller
  rendered,        \* the PromptTemplates.replaceVariables call just made
  usedQuota,       \* User.usedQuota of the one user in the database
  posts            \* the POST /api/analysis requests in flight or answered

vars == <<openaiService, claudeService, usageHistory, now, mode, calls, batch, delayLog,
          filled, recorded, budget, stats, store, served, lastOp, windows, unswept, client,
          rendered, usedQuota, posts>>

\* the state of AIAnalyzer and of its callers
analyzerVars == <<openaiService, claudeService, mode, calls, batch, delayLog>>

\* the state the AIAnalyzer entry points never touch
trackerVars == <<filled, recorded, budget, stats>>

\* the state of the rate limiter middleware
limiterVars == <<store, served, lastOp, windows, unswept>>

\* the state of a provider client used on its own
clientVars == <<client>>

\* the state of the prompt templates and of the API routes
apiVars == <<rendered, usedQuota, posts>>

outsideAnalyzer == <<trackerVars, limiterVars, clientVars, apiVars>>

----------------------------------------------------------------------------
(* Bounds of the explored inputs *)

MaxRequests == 3
MaxConcurrency == 2
MaxDelays == 3     \* delays the history delayLog keeps
MaxClock == 4000   \* the clock of a batch stops advancing here

----------------------------------------------------------------------------
(* Values *)

None == "none"   \* an option the caller left out (undefined)

AIProvider == {"openai", "claude", "google"}

AnalysisTypes == {"QUICK_SCAN", "DEEP_DIVE", "COMPETITOR_COMPARE", "GROWTH_STRATEGY"}

OpenAIModels == {"gpt-4", "gpt-4-turbo", "gpt-3.5-turbo"}

ClaudeModels == {"claude-3-opus", "claude-3-sonnet", "claude-3-haiku"}

\* model ids a caller passes in the explored runs
ModelInputs == {None, "gpt-4-turbo", "gpt-3.5-turbo", "claude-3-sonnet", "no-such-model"}

\* delayMs values a caller passes in the explored runs; an optional number is
\* <<>> when the caller left it out and <<v>> when the caller passed v
DelayInputs == {<<>>, <<0>>, <<250>>}

\* concurrency values a caller passes in the explored runs
ConcurrencyInputs == {<<>>} \cup {<<c>> : c \in 0..MaxConcurrency}

\* option || fallback on an optional number: undefined and 0 are falsy
OrDefault(opt, default) == IF opt = <<>> \/ opt[1] = 0 THEN default ELSE opt[1]

maxHistorySize == 10000

Ok(v) == [ok |-> TRUE, value |-> v]

Err(m) == [ok |-> FALSE, error |-> m]

NoProviderAvailable == "No AI services available. Check API keys."

Min(a, b) == IF a < b THEN a ELSE b

Max(a, b) == IF a > b THEN a ELSE b

\* Math.ceil(a / b) for a >= 0, b > 0
CeilDiv(a, b) == (a + b - 1) \div b

----------------------------------------------------------------------------
(* Model configurations: costs per 1K tokens in units of 1e-5 dollars *)

costPerInputToken(model) ==
  CASE model = "gpt-4" -> 300
    [] model = "gpt-4-turbo" -> 100
    [] model = "gpt-3.5-turbo" -> 50
    [] model = "claude-3-opus" -> 1500
    [] model = "claude-3-sonnet" -> 300
    [] model = "claude-3-haiku" -> 25
    [] OTHER -> 0

costPerOutputToken(model) ==
  CASE model = "gpt-4" -> 600
    [] model = "gpt-4-turbo" -> 300
    [] model = "gpt-3.5-turbo" -> 150
    [] model = "claude-3-opus" -> 7500
    [] model = "claude-3-sonnet" -> 1500
    [] model = "claude-3-haiku" -> 125
    [] OTHER -> 0

\* OpenAIService.getModelConfig / ClaudeService.getModelConfig: is there a config
getModelConfig(provider, model) ==
  CASE provider = "openai" -> model \in OpenAIModels
    [] provider = "claude" -> model \in ClaudeModels
    [] OTHER -> FALSE

\* Math.round((inputCost + outputCost) * 100) with the costs above
RoundCents(inputTokens, outputTokens, model) ==
  (inputTokens * costPerInputToken(model) + outputTokens * costPerOutputToken(model) + 500000)
    \div 1000000

----------------------------------------------------------------------------
(* CostTracker *)

\* variant: the record is stored over the newest one instead of after it
recordUsageOverwriting(history, record) ==
  LET stamped == [record EXCEPT !.timestamp = now]
  IN IF history = <<>> THEN <<stamped>>
     ELSE [history EXCEPT ![Len(history)] = stamped]

\* variant: the overflowing history keeps its oldest records
recordUsageKeepOldest(history, record) ==
  LET pushed == Append(history, [record EXCEPT !.timestamp = now])
  IN IF Len(pushed) > maxHistorySize
       THEN SubSeq(pushed, 1, maxHistorySize)
       ELSE pushed

\* CostTracker.recordUsage: push, then keep the last maxHistorySize records
recordUsage(history, record) ==
  LET pushed == Append(history, [record EXCEPT !.timestamp = now])
  IN IF Len(pushed) > maxHistorySize
       THEN SubSeq(pushed, Len(pushed) - maxHistorySize + 1, Len(pushed))
       ELSE pushed

UsageRecord(provider, model, analysisType, tokensUsed, costCents, success, error) ==
  [provider |-> provider, model |-> model, analysisType |-> analysisType,
   tokensUsed |-> tokensUsed, costCents |-> costCents, success |-> success,
   error |-> error, timestamp |-> 0,
   processingTime |-> 0]   \* the clock does not advance inside a call

\* no getUsageStats call has just returned
NoStats == [returned |-> FALSE]

\* MemoryStore.store = {}
EmptyStore == [k \in {} |-> 0]

\* no rate limiter operation has just been performed
NoOp == [op |-> "none"]

\* no provider client call was made
\* no template has been rendered
NoRender == [template |-> <<>>, variables |-> <<>>, result |-> <<>>, called |-> FALSE]

NoClient == [pc |-> "idle"]

----------------------------------------------------------------------------
(* AIAnalyzer helpers *)

\* variant: the last resort checks claude before openai
selectOptimalProviderClaudeFirst(request) ==
  IF request.analysisType \in {"DEEP_DIVE", "GROWTH_STRATEGY"} /\ claudeService
    THEN Ok("claude")
  ELSE IF request.analysisType = "QUICK_SCAN" /\ openaiService
    THEN Ok("openai")
  ELSE IF claudeService THEN Ok("claude")
  ELSE IF openaiService THEN Ok("openai")
  ELSE Err(NoProviderAvailable)

\* variant: openai is returned when nothing is configured
selectOptimalProviderDefaulting(request) ==
  IF request.analysisType \in {"DEEP_DIVE", "GROWTH_STRATEGY"} /\ claudeService
    THEN Ok("claude")
  ELSE IF claudeService /\ ~openaiService THEN Ok("claude")
  ELSE Ok("openai")

\* AIAnalyzer.selectOptimalProvider
selectOptimalProvider(request) ==
  IF request.analysisType \in {"DEEP_DIVE", "GROWTH_STRATEGY"} /\ claudeService
    THEN Ok("claude")
  ELSE IF request.analysisType = "QUICK_SCAN" /\ openaiService
    THEN Ok("openai")
  ELSE IF openaiService THEN Ok("openai")
  ELSE IF claudeService THEN Ok("claude")
  ELSE Err(NoProviderAvailable)

\* AIAnalyzer.getDefaultModel
getDefaultModel(provider) ==
  CASE provider = "openai" -> Ok("gpt-4-turbo")
    [] provider = "claude" -> Ok("claude-3-sonnet")
    [] OTHER -> Err("Unknown provider")

\* AIAnalyzer.estimateInputTokens
estimateInputTokens(request) ==
  LET baseTokens == 500 + CeilDiv(request.titleLen, 4) + CeilDiv(request.descriptionLen, 4)
                        + 50 + request.recentVideos * 100
  IN CASE request.analysisType = "QUICK_SCAN" -> baseTokens + 300
       [] request.analysisType = "DEEP_DIVE" -> baseTokens + 800
       [] request.analysisType = "COMPETITOR_COMPARE" -> baseTokens + 600
       [] request.analysisType = "GROWTH_STRATEGY" -> baseTokens + 700
       [] OTHER -> baseTokens + 500

\* AIAnalyzer.estimateOutputTokens
estimateOutputTokens(analysisType) ==
  CASE analysisType = "QUICK_SCAN" -> 800
    [] analysisType = "DEEP_DIVE" -> 1500
    [] analysisType = "COMPETITOR_COMPARE" -> 1200
    [] analysisType = "GROWTH_STRATEGY" -> 1400
    [] OTHER -> 1000

\* AIAnalyzer.estimateCost
estimateCost(request, provider, model) ==
  LET sm == IF model # None THEN Ok(model) ELSE getDefaultModel(provider)
  IN IF ~sm.ok THEN sm
     ELSE IF provider \notin {"openai", "claude"} THEN Err("Unsupported provider")
     ELSE IF ~getModelConfig(provider, sm.value) THEN Err("Unknown model")
     ELSE Ok([provider |-> provider, model |-> sm.value,
              estimatedInputTokens |-> estimateInputTokens(request),
              estimatedOutputTokens |-> estimateOutputTokens(request.analysisType),
              estimatedCostCents |-> RoundCents(estimateInputTokens(request),
                                                estimateOutputTokens(request.analysisType),
                                                sm.value)])

----------------------------------------------------------------------------
(* Provider clients: OpenAIService / ClaudeService *)

\* what the external API answers to the one HTTP call of an invocation
ExternalOutcomes == {"ok", "http_error", "malformed"}

\* token usage reported by the external API: <<input tokens, output tokens>>
ExternalUsages == {<<2000, 1500>>}

\* variant: the failure does not name its provider
ProviderFailureUntagged(provider, request, message) ==
  [success |-> FALSE,
   code |-> IF provider = "openai" THEN "OPENAI_ERROR" ELSE "CLAUDE_ERROR",
   message |-> message, provider |-> None,
   tokensUsed |-> 0, costCents |-> 0, forRequest |-> request.id]

\* the failure return of the catch block of analyzeChannel in openai.ts / claude.ts
ProviderFailure(provider, request, message) ==
  [success |-> FALSE,
   code |-> IF provider = "openai" THEN "OPENAI_ERROR" ELSE "CLAUDE_ERROR",
   message |-> message, provider |-> provider,
   tokensUsed |-> 0, costCents |-> 0, forRequest |-> request.id]

\* the success return of analyzeChannel in openai.ts / claude.ts
ProviderSuccess(provider, request, model, usage) ==
  [success |-> TRUE, code |-> None, message |-> None, provider |-> None,
   tokensUsed |-> usage[1] + usage[2],
   costCents |-> RoundCents(usage[1], usage[2], model), forRequest |-> request.id]

\* variant: the model configuration is not looked up before the external call
ProviderClientStartUnchecked(provider, request, model) ==
  IF request.analysisType \notin AnalysisTypes THEN Err("Unknown analysis type")
  ELSE Ok("fetch")

\* analyzeChannel of a provider client up to its external call: the template
\* and the model configuration are looked up first
ProviderClientStart(provider, request, model) ==
  IF request.analysisType \notin AnalysisTypes THEN Err("Unknown analysis type")
  ELSE IF ~getModelConfig(provider, model) THEN Err("Unsupported model")
  ELSE Ok("fetch")

\* analyzeChannel of a provider client from the answer of the external call on
ProviderClientFinish(provider, request, model, outcome, usage) ==
  CASE outcome = "ok" -> ProviderSuccess(provider, request, model, usage)
    [] outcome = "http_error" -> ProviderFailure(provider, request, "API Error")
    [] OTHER -> ProviderFailure(provider, request, "Failed to parse AI response")

----------------------------------------------------------------------------
(* AIAnalyzer.analyzeChannel *)

Event(ev, provider, success) == [ev |-> ev, provider |-> provider, success |-> success]

NoResult == [success |-> FALSE, code |-> None, message |-> None, provider |-> None,
             tokensUsed |-> 0, costCents |-> 0, forRequest |-> 0]

\* analyzeChannel rejects: an error left the function
\* (asked: history, the options of the top-level call, kept across the fallback)
ThrownCall(request, options, asked, provider, model, error, trace) ==
  [request |-> request, options |-> options, asked |-> asked,
   provider |-> provider, model |-> model,
   estimatedCostCents |-> 0, pc |-> "thrown", result |-> NoResult, thrown |-> error,
   trace |-> trace]

\* analyzeChannel from its entry to the await of estimateCost (analyzer.ts:44-48);
\* all of it is outside the try block
Enter(request, options, asked, trace) ==
  LET sel == IF options.provider # None THEN Ok(options.provider)
             ELSE selectOptimalProvider(request)
  IN IF ~sel.ok THEN ThrownCall(request, options, asked, None, None, sel.error, trace)
     ELSE LET dm == IF options.model # None THEN Ok(options.model)
                    ELSE getDefaultModel(sel.value)
          IN IF ~dm.ok
               THEN ThrownCall(request, options, asked, sel.value, None, dm.error, trace)
             ELSE LET est == estimateCost(request, sel.value, dm.value)
                  IN IF ~est.ok
                       THEN ThrownCall(request, options, asked, sel.value, dm.value,
                                       est.error, trace)
                       ELSE [request |-> request, options |-> options, asked |-> asked,
                             provider |-> sel.value, model |-> dm.value,
                             estimatedCostCents |-> est.value.estimatedCostCents,
                             pc |-> "estimate", result |-> NoResult, thrown |-> None,
                             trace |-> trace]

\* the failure result built at analyzer.ts:110-123
AnalysisFailed(c, message) ==
  [success |-> FALSE, code |-> "ANALYSIS_FAILED", message |-> message,
   provider |-> c.provider, tokensUsed |-> 0, costCents |-> 0,
   forRequest |-> c.request.id]

\* variant: the fallback is taken whenever one was specified
TakesFallbackAlways(c) == c.options.fallbackProvider # None

\* does the catch block take the fallback branch (analyzer.ts:90)
TakesFallback(c) ==
  c.options.fallbackProvider # None /\ c.options.fallbackProvider # c.provider

\* the catch block of analyzeChannel (analyzer.ts:88-124): the call afterwards
CatchCall(c, message, trace) ==
  IF TakesFallback(c)
    THEN LET fb == c.options.fallbackProvider
             dm == getDefaultModel(fb)
             tr == Append(trace, Event("fallback", fb, FALSE))
         IN IF ~dm.ok
              THEN ThrownCall(c.request, c.options, c.asked, c.provider, c.model, dm.error, tr)
              ELSE Enter(c.request,
                         [provider |-> fb, model |-> dm.value, fallbackProvider |-> None],
                         c.asked, tr)
    ELSE [c EXCEPT !.pc = "done", !.result = AnalysisFailed(c, message),
                   !.trace = Append(trace, Event("record", c.provider, FALSE))]

\* the catch block of analyzeChannel: the usage history afterwards
CatchHistory(c, message) ==
  IF TakesFallback(c) THEN usageHistory
  ELSE recordUsage(usageHistory,
                   UsageRecord(c.provider, c.model, c.request.analysisType, 0, 0, FALSE, message))

\* is the service of this provider initialized (analyzer.ts:56,63)
ServiceOf(provider) ==
  CASE provider = "openai" -> Ok(openaiService)
    [] provider = "claude" -> Ok(claudeService)
    [] OTHER -> Err("Unsupported provider")

NotInitialized == "service not initialized. Check API key."

\* analyzer.ts:50-71 and, for an error thrown in the switch, 88-124: the
\* continuation after the await of estimateCost
Invoke(k) ==
  /\ k \in 1..Len(calls)
  /\ calls[k].pc = "estimate"
  /\ LET c == calls[k]
         svc == ServiceOf(c.provider)
         tr == Append(c.trace, Event("try", c.provider, FALSE))
     IN IF ~svc.ok
          THEN /\ calls' = [calls EXCEPT ![k] = CatchCall(c, svc.error, tr)]
               /\ usageHistory' = CatchHistory(c, svc.error)
        ELSE IF ~svc.value
          THEN /\ calls' = [calls EXCEPT ![k] = CatchCall(c, NotInitialized, tr)]
               /\ usageHistory' = CatchHistory(c, NotInitialized)
        ELSE LET st == ProviderClientStart(c.provider, c.request, c.model)
                 tri == Append(tr, Event("invoke", c.provider, FALSE))
             IN /\ usageHistory' = usageHistory
                /\ IF st.ok
                     THEN calls' = [calls EXCEPT ![k] =
                            [c EXCEPT !.pc = "inflight",
                                      !.trace = Append(tri, Event("external", c.provider, FALSE))]]
                     ELSE calls' = [calls EXCEPT ![k] =
                            [c EXCEPT !.pc = "returned",
                                      !.result = ProviderFailure(c.provider, c.request, st.error),
                                      !.trace = Append(tri, Event("complete", c.provider, FALSE))]]
  /\ UNCHANGED <<outsideAnalyzer, openaiService, claudeService, now, mode, batch, delayLog>>

\* the external API answers and the provider client returns its result
\* (openai.ts:80-129, claude.ts:79-128)
ProviderReturn(k) ==
  /\ k \in 1..Len(calls)
  /\ calls[k].pc = "inflight"
  /\ \E outcome \in ExternalOutcomes, usage \in ExternalUsages :
       LET c == calls[k]
           r == ProviderClientFinish(c.provider, c.request, c.model, outcome, usage)
       IN calls' = [calls EXCEPT ![k] =
               [c EXCEPT !.pc = "returned", !.result = r,
                         !.trace = Append(c.trace, Event("complete", c.provider, r.success))]]
  /\ UNCHANGED <<outsideAnalyzer, openaiService, claudeService, usageHistory, now, mode, batch, delayLog>>

\* does analyzeChannel record the result the provider client returned (analyzer.ts:74)
RecordsResult(result) == result.success

\* analyzer.ts:73-86: the continuation after the await of the provider client
Finish(k) ==
  /\ k \in 1..Len(calls)
  /\ calls[k].pc = "returned"
  /\ LET c == calls[k]
     IN IF RecordsResult(c.result)
          THEN /\ usageHistory' = recordUsage(usageHistory,
                    UsageRecord(c.provider, c.model, c.request.analysisType,
                                c.result.tokensUsed, c.result.costCents, TRUE, None))
               /\ calls' = [calls EXCEPT ![k] =
                    [c EXCEPT !.pc = "done",
                              !.trace = Append(c.trace, Event("record", c.provider, TRUE))]]
          ELSE /\ usageHistory' = usageHistory
               /\ calls' = [calls EXCEPT ![k] = [c EXCEPT !.pc = "done"]]
  /\ UNCHANGED <<outsideAnalyzer, openaiService, claudeService, now, mode, batch, delayLog>>

----------------------------------------------------------------------------
(* AIAnalyzer.analyzeMultipleChannels *)

\* Array.prototype.slice(a, b) on a sequence
Slice(s, a, b) ==
  LET n == Len(s)
      from == IF a < 0 THEN Max(n + a, 0) ELSE Min(a, n)
      to == IF b < 0 THEN Max(n + b, 0) ELSE Min(b, n)
  IN IF from < to THEN SubSeq(s, from + 1, to) ELSE <<>>

\* options: the concurrency and delayMs the caller passed, as passed
IdleBatch ==
  [pc |-> "idle", requests |-> <<>>, provider |-> None,
   options |-> [concurrency |-> <<>>, delayMs |-> <<>>], concurrency |-> 0, delayMs |-> 0,
   i |-> 0, group |-> <<>>, results |-> <<>>]

\* i += concurrency (analyzer.ts:141). With a negative concurrency the index
\* falls for ever; every index at or below -requests.length selects the same
\* empty slice and passes the same two tests, so the greatest of them stands
\* for all of them
Advance(b) == Max(b.i + b.concurrency, -Len(b.requests))

\* the history of the delays keeps the first MaxDelays of them
LogDelay(log, at) == IF Len(log) < MaxDelays THEN Append(log, at) ELSE log

\* the head of the for loop: test, slice and map (analyzer.ts:141-146); the
\* calls of the group are entered one after the other before the await
LoopBatch(b) ==
  IF b.i < Len(b.requests)
    THEN LET slice == Slice(b.requests, b.i, b.i + b.concurrency)
         IN [b EXCEPT !.pc = "join",
                      !.group = [j \in 1..Len(slice) |-> Len(calls) + j]]
    ELSE [b EXCEPT !.pc = "done", !.group = <<>>]

LoopCalls(b) ==
  IF b.i < Len(b.requests)
    THEN LET slice == Slice(b.requests, b.i, b.i + b.concurrency)
         IN calls \o [j \in 1..Len(slice) |->
                        LET options == [provider |-> b.provider, model |-> None,
                                        fallbackProvider |-> None]
                        IN Enter(slice[j], options, options, <<>>)]
    ELSE calls

\* the results Promise.all resolves with: one per promise, in the order of the promises
batchResults(group) == [j \in 1..Len(group) |-> calls[group[j]].result]

\* variant: the bound of the comparison is off by one
NeedsDelayAfterLast(b) == b.i + b.concurrency <= Len(b.requests) /\ b.delayMs > 0

\* the condition of the delay between batches (analyzer.ts:152)
NeedsDelay(b) == b.i + b.concurrency < Len(b.requests) /\ b.delayMs > 0

\* analyzer.ts:136-146: defaults, then the first pass through the loop head
StartBatch(requests, provider, concurrency, delayMs) ==
  /\ mode = "idle"
  /\ LET b == [IdleBatch EXCEPT
                 !.requests = requests, !.provider = provider,
                 !.options = [concurrency |-> concurrency, delayMs |-> delayMs],
                 !.concurrency = OrDefault(concurrency, 3),
                 !.delayMs = OrDefault(delayMs, 1000)]
     IN /\ batch' = LoopBatch(b)
        /\ calls' = LoopCalls(b)
  /\ mode' = "batch"
  /\ UNCHANGED <<outsideAnalyzer, openaiService, claudeService, usageHistory, now, delayLog>>

\* variant: the join resolves as soon as one promise of the group has resolved
GroupSettledAny(group) == \E j \in 1..Len(group) : calls[group[j]].pc = "done"

\* Promise.all over the promises of the group resolves when all of them have
GroupSettled(group) == \A j \in 1..Len(group) : calls[group[j]].pc = "done"

\* analyzer.ts:148-155: Promise.all resolved; push the results, then either
\* start the delay or go round the loop
JoinBatch ==
  /\ batch.pc = "join"
  /\ GroupSettled(batch.group)
  /\ LET pushed == [batch EXCEPT !.results = batch.results \o batchResults(batch.group)]
     IN IF NeedsDelay(pushed)
          THEN /\ batch' = [pushed EXCEPT !.pc = "delay"]
               /\ calls' = calls
               /\ delayLog' = LogDelay(delayLog, pushed.i + pushed.concurrency)
          ELSE LET next == [pushed EXCEPT !.i = Advance(pushed)]
               IN /\ batch' = LoopBatch(next)
                  /\ calls' = LoopCalls(next)
                  /\ delayLog' = delayLog
  /\ UNCHANGED <<outsideAnalyzer, openaiService, claudeService, usageHistory, now, mode>>

\* Promise.all rejects as soon as one promise of the group rejects, and the
\* rejection leaves analyzeMultipleChannels (analyzer.ts:148)
RejectBatch ==
  /\ batch.pc = "join"
  /\ \E j \in 1..Len(batch.group) : calls[batch.group[j]].pc = "thrown"
  /\ batch' = [batch EXCEPT !.pc = "thrown"]
  /\ UNCHANGED <<outsideAnalyzer, openaiService, claudeService, usageHistory, now, mode, calls, delayLog>>

\* analyzer.ts:153,285-287: the timer of the delay fires; next pass of the loop
DelayDone ==
  /\ batch.pc = "delay"
  /\ now' = Min(now + batch.delayMs, MaxClock)
  /\ LET next == [batch EXCEPT !.i = Advance(batch)]
     IN /\ batch' = LoopBatch(next)
        /\ calls' = LoopCalls(next)
  /\ UNCHANGED <<outsideAnalyzer, openaiService, claudeService, usageHistory, mode, delayLog>>

----------------------------------------------------------------------------
(* Callers *)

TypeOrder == <<"QUICK_SCAN", "DEEP_DIVE", "COMPETITOR_COMPARE", "GROWTH_STRATEGY">>

Request(id, analysisType) ==
  [id |-> id, analysisType |-> analysisType, titleLen |-> 18, descriptionLen |-> 120,
   recentVideos |-> 2]

\* the request lists of the explored batches: n requests with distinct ids
\* whose analysis types cycle from an offset
RequestList(n, off) == [k \in 1..n |-> Request(k, TypeOrder[((k + off) % 4) + 1])]

\* a caller calls analyzeChannel(request, options)
StartSingle(analysisType, provider, model, fallbackProvider) ==
  /\ mode = "idle"
  /\ mode' = "single"
  /\ LET options == [provider |-> provider, model |-> model,
                     fallbackProvider |-> fallbackProvider]
     IN calls' = <<Enter(Request(1, analysisType), options, options, <<>>)>>
  /\ UNCHANGED <<outsideAnalyzer, openaiService, claudeService, usageHistory, now, batch, delayLog>>

Init ==
  /\ openaiService \in BOOLEAN
  /\ claudeService \in BOOLEAN
  /\ usageHistory = <<>>
  /\ now = 0
  /\ mode = "idle"
  /\ calls = <<>>
  /\ batch = IdleBatch
  /\ delayLog = <<>>
  /\ filled = 0
  /\ recorded = <<>>
  /\ budget = 0
  /\ stats = NoStats
  /\ store = EmptyStore
  /\ served = 0
  /\ lastOp = NoOp
  /\ windows = EmptyStore
  /\ unswept = EmptyStore
  /\ client = NoClient
  /\ rendered = NoRender
  /\ usedQuota = 0
  /\ posts = <<>>

Next ==
  \/ \E t \in AnalysisTypes, p \in AIProvider \cup {None}, m \in ModelInputs,
        f \in AIProvider \cup {None} : StartSingle(t, p, m, f)
  \/ \E n \in 0..MaxRequests, off \in 0..3, p \in AIProvider \cup {None},
        c \in ConcurrencyInputs, d \in DelayInputs :
        StartBatch(RequestList(n, off), p, c, d)
  \/ \E k \in 1..Len(calls) : Invoke(k)
  \/ \E k \in 1..Len(calls) : ProviderReturn(k)
  \/ \E k \in 1..Len(calls) : Finish(k)
  \/ JoinBatch
  \/ RejectBatch
  \/ DelayDone

Spec == Init /\ [][Next]_vars

----------------------------------------------------------------------------
(* Properties of analyzeChannel *)

\* number of events of one kind in the history of a call
Count(trace, ev) == Cardinality({i \in 1..Len(trace) : trace[i].ev = ev})

\* the provider of the first attempt of a call (None before any attempt)
FirstTried(trace) ==
  IF \E i \in 1..Len(trace) : trace[i].ev = "try"
    THEN trace[CHOOSE i \in 1..Len(trace) :
                 trace[i].ev = "try" /\ \A j \in 1..(i - 1) : trace[j].ev # "try"].provider
    ELSE None

Configured(provider) ==
  \/ provider = "openai" /\ openaiService
  \/ provider = "claude" /\ claudeService

\* C1: analyzeChannel never throws or rejects; every call ends by returning a
\* result object tagged success or failure.
C1_NeverThrows == \A k \in 1..Len(calls) : calls[k].pc # "thrown"

\* C2: every completed provider-client invocation of an analyzeChannel call,
\* successful or failed, has exactly one UsageRecord appended for it.
C2_OneRecordPerInvocation ==
  (mode = "single" /\ calls[1].pc = "done" /\ Count(calls[1].trace, "complete") = 1)
    => Len(usageHistory) = 1

\* C3: when the invocation of the selected provider fails and the caller named
\* a different (configured) fallbackProvider, the fallback provider is invoked before the
\* call returns and the returned result is the one of the fallback attempt.
C3_FallbackAfterFailure ==
  \A k \in 1..Len(calls) :
    LET c == calls[k]
        failed == \E i \in 1..Len(c.trace) :
                    /\ c.trace[i].ev = "complete"
                    /\ ~c.trace[i].success
                    /\ c.trace[i].provider = FirstTried(c.trace)
    IN (c.pc = "done" /\ failed
        /\ c.asked.fallbackProvider \notin {None, FirstTried(c.trace)}
        /\ Configured(c.asked.fallbackProvider))
         => /\ \E i \in 1..Len(c.trace) :
                 c.trace[i].ev = "invoke" /\ c.trace[i].provider = c.asked.fallbackProvider
            /\ c.provider = c.asked.fallbackProvider

\* C4: one top-level analyzeChannel call attempts at most two providers; the
\* fallback attempt carries no fallback of its own, and a fallbackProvider
\* equal to the primary provider gives no second attempt.
C4_AtMostTwoAttempts ==
  \A k \in 1..Len(calls) :
    LET c == calls[k]
    IN /\ Count(c.trace, "try") <= 2
       /\ Count(c.trace, "invoke") <= Count(c.trace, "try")
       /\ Count(c.trace, "fallback") <= 1
       /\ Count(c.trace, "try") = 2 => c.options.fallbackProvider = None
       /\ (Count(c.trace, "try") >= 1 /\ c.asked.fallbackProvider = FirstTried(c.trace))
            => Count(c.trace, "try") = 1

\* a call ended in failure after its fallback attempt failed as well
C4_Witness ==
  \E k \in 1..Len(calls) :
    /\ calls[k].pc = "done"
    /\ ~calls[k].result.success
    /\ Count(calls[k].trace, "try") = 2
    /\ calls[k].provider = calls[k].asked.fallbackProvider

\* C5: when analyzeChannel ends in failure, exactly one UsageRecord with
\* success=false, tokensUsed=0 and costCents=0 has been recorded for the call,
\* and the failure result names the provider that failed.
C5_FailureRecordedOnce ==
  (mode = "single" /\ calls[1].pc = "done" /\ ~calls[1].result.success)
    => /\ Len(usageHistory) = 1
       /\ ~usageHistory[1].success
       /\ usageHistory[1].tokensUsed = 0
       /\ usageHistory[1].costCents = 0
       /\ usageHistory[1].provider = calls[1].provider
       /\ calls[1].result.provider = calls[1].provider

\* the provider the preference table of the specification names for a type
Preferred(analysisType) ==
  IF analysisType \in {"DEEP_DIVE", "GROWTH_STRATEGY"} THEN "claude"
  ELSE IF analysisType = "QUICK_SCAN" THEN "openai"
  ELSE None

\* C6: a provider the caller specified is used as given; otherwise the
\* preferred provider of the analysis type is selected when it is configured,
\* and in every other case openai if configured, else claude; the selected
\* provider is always a configured one.
C6_ProviderSelection ==
  \A k \in 1..Len(calls) :
    LET c == calls[k]
        type == c.request.analysisType
    IN Count(c.trace, "fallback") = 0 =>
         /\ c.asked.provider # None => c.provider = c.asked.provider
         /\ (c.asked.provider = None /\ (openaiService \/ claudeService)) =>
              /\ c.provider = IF Configured(Preferred(type)) THEN Preferred(type)
                              ELSE IF openaiService THEN "openai" ELSE "claude"
              /\ Configured(c.provider)

\* the preferred provider of a deep dive is not configured and openai was selected
C6_Witness ==
  \E k \in 1..Len(calls) :
    /\ calls[k].asked.provider = None
    /\ calls[k].request.analysisType = "DEEP_DIVE"
    /\ ~claudeService
    /\ calls[k].provider = "openai"
    /\ calls[k].pc = "done"

\* C7: with no provider specified and no provider configured, analyzeChannel
\* fails with the NoProviderAvailable error and calls no provider client.
C7_NoProviderAvailable ==
  \A k \in 1..Len(calls) :
    LET c == calls[k]
    IN (c.asked.provider = None /\ ~openaiService /\ ~claudeService)
         => /\ c.pc = "thrown"
            /\ c.thrown = NoProviderAvailable
            /\ c.trace = <<>>
            /\ usageHistory = <<>>

\* a single call without a provider was made on an analyzer without services
C7_Witness ==
  /\ mode = "single"
  /\ ~openaiService /\ ~claudeService
  /\ calls[1].asked.provider = None
  /\ calls[1].thrown = NoProviderAvailable

----------------------------------------------------------------------------
(* Properties of analyzeMultipleChannels *)

\* C8: analyzeMultipleChannels returns exactly one result per input request,
\* result i belonging to request i, whatever the completion order and
\* whichever requests fail.
C8_OneResultPerRequest ==
  (mode = "batch" /\ batch.pc \in {"done", "thrown"})
    => /\ Len(batch.results) = Len(batch.requests)
       /\ \A i \in 1..Len(batch.requests) :
            batch.results[i].forRequest = batch.requests[i].id

\* the multiples of the group size c that mark a complete group, already
\* joined, with further requests after it
GroupBoundaries(n, c, joined) == {m \in 1..n : m % c = 0 /\ m <= joined /\ m < n}

\* C9: with n requests and group size c there is one delay after each
\* complete group except the last, none within a group and none after the
\* final group: ceil(n/c) - 1 delays when the batch returns (none when n <= c).
C9_DelaysBetweenGroups ==
  mode = "batch" =>
    LET n == Len(batch.requests)
        c == batch.concurrency
        bounds == GroupBoundaries(n, c, Len(batch.results))
    IN /\ Len(delayLog) = Cardinality(bounds)
       /\ \A d \in 1..Len(delayLog) : delayLog[d] = d * c
       /\ batch.pc = "delay" => \A k \in 1..Len(calls) : calls[k].pc = "done"
       /\ batch.pc = "done" =>
            /\ Len(delayLog) = IF n <= c THEN 0 ELSE CeilDiv(n, c) - 1
            /\ now = Len(delayLog) * batch.delayMs

\* a batch of three requests in groups of one returned after two delays
C9_Witness ==
  /\ mode = "batch"
  /\ batch.pc = "done"
  /\ Len(batch.requests) = 3
  /\ batch.concurrency = 1
  /\ delayLog = <<1, 2>>
  /\ Len(batch.results) = 3

\* calls of the batch that have been issued and have not completed
Active == {k \in 1..Len(calls) : calls[k].pc \in {"estimate", "inflight", "returned"}}

\* C10: no request of a later group is issued before every request of the
\* group before it has completed; at most `concurrency` calls are in flight.
C10_GroupsDoNotOverlap ==
  mode = "batch" =>
    /\ Cardinality(Active) <= batch.concurrency
    /\ \A k \in Active : \E j \in 1..Len(batch.group) : batch.group[j] = k
    /\ \A k \in 1..Len(calls) :
         (\A j \in 1..Len(batch.group) : batch.group[j] > k) => calls[k].pc = "done"

\* the second group of a batch is in flight, two calls at once, after the
\* first group completed
C10_Witness ==
  /\ mode = "batch"
  /\ batch.i > 0
  /\ batch.concurrency = 2
  /\ Cardinality({k \in 1..Len(calls) : calls[k].pc = "inflight"}) >= 1
  /\ \A k \in 1..batch.i : calls[k].pc = "done"


\* the error estimateCost raises for the provider and model of a call, if any
EstimateError(c) ==
  IF c.provider = None \/ c.model = None THEN None
  ELSE LET est == estimateCost(c.request, c.provider, c.model)
       IN IF est.ok THEN None ELSE est.error

\* C21: the cost estimate at the start of analyzeChannel is advisory: the
\* estimation step never keeps a call from invoking its provider and never
\* changes what the call returns, whatever model was named.
C21_EstimateIsAdvisory ==
  \A k \in 1..Len(calls) :
    ~ /\ calls[k].pc = "thrown"
      /\ EstimateError(calls[k]) # None
      /\ calls[k].thrown = EstimateError(calls[k])
      /\ Count(calls[k].trace, "invoke") = 0

\* C26: analyzeMultipleChannels waits between groups only when the caller's
\* delayMs is positive; a caller that passed delayMs = 0 is never delayed.
C26_NoDelayForZero ==
  batch.pc = "delay" => batch.options.delayMs # <<0>>

----------------------------------------------------------------------------
(* CostTracker.getUsageStats *)

MaxNewRecords == 3   \* recordUsage calls of one explored run

DAY == 86400000      \* ms of one calendar day
HOUR == 3600000

\* The clock of the explored runs counts ms from 2023-03-01T00:00 local time,
\* in a time zone without daylight saving.  firstDayOfMonth[m] is the day
\* number of the first day of month m of 2023.
firstDayOfMonth == [m \in 1..3 |-> CASE m = 1 -> -59 [] m = 2 -> -28 [] m = 3 -> 0]

\* Date.getMonth / Date.getDate of the day numbered `day`
CalendarDate(day) ==
  IF day >= 0 THEN [month |-> 3, date |-> day + 1]
  ELSE IF day >= -28 THEN [month |-> 2, date |-> day + 29]
  ELSE [month |-> 1, date |-> day + 60]

\* An instant as a local date: day number and ms since that day's midnight
DateOf(ms) == [day |-> ms \div DAY, ms |-> ms % DAY]

Timeframes == {"today", "week", "month"}

\* CostTracker.getCutoffDate
getCutoffDate(at, timeframe) ==
  LET d == DateOf(at)
      c == CalendarDate(d.day)
  IN CASE timeframe = "today" -> [day |-> d.day, ms |-> 0]
       [] timeframe = "week"  -> [day |-> d.day - 7, ms |-> d.ms]
       [] timeframe = "month" ->
            [day |-> firstDayOfMonth[c.month - 1] + c.date - 1, ms |-> d.ms]

\* variant: record.timestamp > cutoffDate
InWindowStrict(record, cutoffDate) ==
  LET t == DateOf(record.timestamp)
  IN \/ t.day > cutoffDate.day
     \/ t.day = cutoffDate.day /\ t.ms > cutoffDate.ms

\* record.timestamp && record.timestamp >= cutoffDate
InWindow(record, cutoffDate) ==
  LET t == DateOf(record.timestamp)
  IN \/ t.day > cutoffDate.day
     \/ t.day = cutoffDate.day /\ t.ms >= cutoffDate.ms

\* records.reduce((sum, r) => sum + r[field], 0)
RECURSIVE SumField(_, _)
SumField(records, field) ==
  IF records = <<>> THEN 0
  ELSE records[1][field] + SumField(Tail(records), field)

\* the forEach that accumulates costCents under record[field]
RECURSIVE CostBy(_, _, _)
CostBy(records, field, acc) ==
  IF records = <<>> THEN acc
  ELSE LET r == records[1]
           key == r[field]
       IN CostBy(Tail(records), field,
                 IF key \in DOMAIN acc
                   THEN [acc EXCEPT ![key] = @ + r.costCents]
                   ELSE acc @@ (key :> r.costCents))

\* the empty object {}
EmptyBreakdown == [k \in {} |-> 0]

\* CostTracker.getEmptyStats
getEmptyStats ==
  [totalRequests |-> 0, successfulRequests |-> 0, failedRequests |-> 0,
   totalCostCents |-> 0, totalTokensUsed |-> 0, averageProcessingTime |-> 0,
   costByProvider |-> EmptyBreakdown, costByAnalysisType |-> EmptyBreakdown]

\* Math.round(sum / count) of a non-negative sum
RoundDiv(sum, count) == (2 * sum + count) \div (2 * count)

\* CostTracker.getUsageStats
getUsageStats(history, at, timeframe) ==
  LET cutoffDate == getCutoffDate(at, timeframe)
      relevantRecords == SelectSeq(history, LAMBDA r : InWindow(r, cutoffDate))
      totalRequests == Len(relevantRecords)
      successfulRequests == Len(SelectSeq(relevantRecords, LAMBDA r : r.success))
  IN IF totalRequests = 0 THEN getEmptyStats
     ELSE [totalRequests |-> totalRequests,
           successfulRequests |-> successfulRequests,
           failedRequests |-> totalRequests - successfulRequests,
           totalCostCents |-> SumField(relevantRecords, "costCents"),
           totalTokensUsed |-> SumField(relevantRecords, "tokensUsed"),
           averageProcessingTime |->
             RoundDiv(SumField(relevantRecords, "processingTime"), totalRequests),
           costByProvider |-> CostBy(relevantRecords, "provider", EmptyBreakdown),
           costByAnalysisType |-> CostBy(relevantRecords, "analysisType", EmptyBreakdown)]

----------------------------------------------------------------------------
(* Callers of the CostTracker *)

\* the records a caller hands to recordUsage in the explored runs
RecordInputs ==
  {[UsageRecord("openai", "gpt-3.5-turbo", "QUICK_SCAN", 3500, 1, TRUE, None)
      EXCEPT !.processingTime = 1200],
   [UsageRecord("claude", "claude-3-sonnet", "DEEP_DIVE", 5000, 4, TRUE, None)
      EXCEPT !.processingTime = 2501],
   [UsageRecord("openai", "gpt-4-turbo", "DEEP_DIVE", 0, 0, FALSE, "OpenAI API Error")
      EXCEPT !.processingTime = 300]}

\* the instants at which the explored runs look at the clock: around
\* 2023-02-05T00:00, 2023-02-26T00:00 and 2023-03-05T00:00
Instants ==
  {-24 * DAY - 1, -24 * DAY, -3 * DAY - 1, -3 * DAY, 4 * DAY - 1, 4 * DAY, 4 * DAY + HOUR}

\* the i-th record of a history that was filled before the explored run
FilledRecord(i) ==
  [UsageRecord("openai", "gpt-3.5-turbo", "QUICK_SCAN", i, 1, TRUE, None)
     EXCEPT !.timestamp = -24 * DAY - 1]

\* a caller awaits costTracker.recordUsage(record)
RecordUsage(record) ==
  /\ budget > 0
  /\ budget' = budget - 1
  /\ usageHistory' = recordUsage(usageHistory, record)
  /\ recorded' = Append(recorded, [record EXCEPT !.timestamp = now])
  /\ stats' = NoStats
  /\ UNCHANGED <<analyzerVars, limiterVars, clientVars, apiVars, now, filled>>

\* a caller calls costTracker.getUsageStats(timeframe)
GetUsageStats(timeframe) ==
  /\ stats' = [returned |-> TRUE, timeframe |-> timeframe,
               value |-> getUsageStats(usageHistory, now, timeframe)]
  /\ UNCHANGED <<analyzerVars, limiterVars, clientVars, apiVars, usageHistory, now, filled, recorded, budget>>

\* time passes
Tick(t) ==
  /\ t > now
  /\ now' = t
  /\ stats' = NoStats
  /\ lastOp' = NoOp
  /\ UNCHANGED <<analyzerVars, clientVars, apiVars, usageHistory, filled, recorded, budget,
                 store, served, windows, unswept>>

\* a tracker whose history is about to reach maxHistorySize
InitCap ==
  /\ openaiService = FALSE
  /\ claudeService = FALSE
  /\ mode = "idle"
  /\ calls = <<>>
  /\ batch = IdleBatch
  /\ delayLog = <<>>
  /\ now = 4 * DAY
  /\ filled \in {maxHistorySize - 1, maxHistorySize}
  /\ usageHistory = [i \in 1..filled |-> FilledRecord(i)]
  /\ recorded = <<>>
  /\ budget = MaxNewRecords
  /\ stats = NoStats
  /\ store = EmptyStore
  /\ served = 0
  /\ lastOp = NoOp
  /\ windows = EmptyStore
  /\ unswept = EmptyStore
  /\ client = NoClient
  /\ rendered = NoRender
  /\ usedQuota = 0
  /\ posts = <<>>

NextCap ==
  \/ \E r \in RecordInputs : RecordUsage(r)
  \/ \E t \in Instants : Tick(t)

SpecCap == InitCap /\ [][NextCap]_vars

\* a new tracker
InitStats ==
  /\ openaiService = FALSE
  /\ claudeService = FALSE
  /\ mode = "idle"
  /\ calls = <<>>
  /\ batch = IdleBatch
  /\ delayLog = <<>>
  /\ now = -24 * DAY - 1
  /\ usageHistory = <<>>
  /\ filled = 0
  /\ recorded = <<>>
  /\ budget = MaxNewRecords
  /\ stats = NoStats
  /\ store = EmptyStore
  /\ served = 0
  /\ lastOp = NoOp
  /\ windows = EmptyStore
  /\ unswept = EmptyStore
  /\ client = NoClient
  /\ rendered = NoRender
  /\ usedQuota = 0
  /\ posts = <<>>

NextStats ==
  \/ \E r \in RecordInputs : RecordUsage(r)
  \/ \E tf \in Timeframes : GetUsageStats(tf)
  \/ \E t \in Instants : Tick(t)

SpecStats == InitStats /\ [][NextStats]_vars

----------------------------------------------------------------------------
(* Properties of the CostTracker *)

\* the i-th record the tracker was ever handed
HandedIn(i) == IF i <= filled THEN FilledRecord(i) ELSE recorded[i - filled]

\* C11: after any sequence of recordUsage calls the history holds at most
\* maxHistorySize records, and they are the most recent
\* min(n, maxHistorySize) records handed in, unaltered and in the order
\* they were recorded.
C11_HistoryIsMostRecent ==
  LET n == filled + Len(recorded)
      kept == Min(n, maxHistorySize)
  IN /\ Len(usageHistory) <= maxHistorySize
     /\ usageHistory = [i \in 1..kept |-> HandedIn(n - kept + i)]

\* a record was evicted from a full history
C11_Witness ==
  /\ filled + Len(recorded) > maxHistorySize
  /\ Len(usageHistory) = maxHistorySize
  /\ budget < MaxNewRecords

\* the retained records with a timestamp at or after the window's cutoff
Matching(timeframe) ==
  LET cutoff == getCutoffDate(now, timeframe)
      Before(t) == t.day < cutoff.day \/ (t.day = cutoff.day /\ t.ms < cutoff.ms)
  IN {i \in 1..Len(usageHistory) : ~Before(DateOf(usageHistory[i].timestamp))}

RECURSIVE SumOver(_, _)
SumOver(indices, field) ==
  IF indices = {} THEN 0
  ELSE LET i == CHOOSE j \in indices : TRUE
       IN usageHistory[i][field] + SumOver(indices \ {i}, field)

RECURSIVE SumBreakdown(_, _)
SumBreakdown(breakdown, keys) ==
  IF keys = {} THEN 0
  ELSE LET k == CHOOSE x \in keys : TRUE
       IN breakdown[k] + SumBreakdown(breakdown, keys \ {k})

\* C12: getUsageStats(window) aggregates exactly the retained records whose
\* timestamp is at or after the window's cutoff: totalRequests is their
\* count, successful + failed = total, the cost and token totals are their
\* sums, and each of the two breakdowns sums to totalCostCents; when no
\* record matches every total is zero and both breakdowns are empty.
C12_StatsAggregateWindow ==
  stats.returned =>
    LET m == Matching(stats.timeframe)
        v == stats.value
    IN /\ v.totalRequests = Cardinality(m)
       /\ v.successfulRequests = Cardinality({i \in m : usageHistory[i].success})
       /\ v.successfulRequests + v.failedRequests = v.totalRequests
       /\ v.totalCostCents = SumOver(m, "costCents")
       /\ v.totalTokensUsed = SumOver(m, "tokensUsed")
       /\ DOMAIN v.costByProvider = {usageHistory[i].provider : i \in m}
       /\ \A p \in DOMAIN v.costByProvider :
            v.costByProvider[p] = SumOver({i \in m : usageHistory[i].provider = p}, "costCents")
       /\ SumBreakdown(v.costByProvider, DOMAIN v.costByProvider) = v.totalCostCents
       /\ DOMAIN v.costByAnalysisType = {usageHistory[i].analysisType : i \in m}
       /\ SumBreakdown(v.costByAnalysisType, DOMAIN v.costByAnalysisType) = v.totalCostCents
       /\ m = {} => /\ v.totalCostCents = 0
                    /\ v.totalTokensUsed = 0
                    /\ v.averageProcessingTime = 0
                    /\ v.failedRequests = 0

\* a window that holds a record stamped exactly at its cutoff, leaves an
\* older record out, and has both a success and a failure
C12_Witness ==
  /\ stats.returned
  /\ stats.value.totalRequests = 2
  /\ stats.value.failedRequests = 1
  /\ Len(usageHistory) = 3
  /\ \E i \in 1..Len(usageHistory) :
       DateOf(usageHistory[i].timestamp) = getCutoffDate(now, stats.timeframe)
  /\ Cardinality(Matching(stats.timeframe)) = 2

----------------------------------------------------------------------------
(* A group of concurrent calls on a tracker whose history is nearly full *)

MaxGroup == 2   \* calls of the explored group

InitGroup ==
  /\ openaiService \in BOOLEAN
  /\ claudeService = FALSE
  /\ mode = "idle"
  /\ calls = <<>>
  /\ batch = IdleBatch
  /\ delayLog = <<>>
  /\ now = 4 * DAY
  /\ filled = maxHistorySize - 1
  /\ usageHistory = [i \in 1..filled |-> FilledRecord(i)]
  /\ recorded = <<>>
  /\ budget = 0
  /\ stats = NoStats
  /\ store = EmptyStore
  /\ served = 0
  /\ lastOp = NoOp
  /\ windows = EmptyStore
  /\ unswept = EmptyStore
  /\ client = NoClient
  /\ rendered = NoRender
  /\ usedQuota = 0
  /\ posts = <<>>

NextGroup ==
  \/ \E off \in 0..1 : StartBatch(RequestList(MaxGroup, off), "openai", <<MaxGroup>>, <<>>)
  \/ \E k \in 1..Len(calls) : Invoke(k)
  \/ \E k \in 1..Len(calls) : ProviderReturn(k)
  \/ \E k \in 1..Len(calls) : Finish(k)
  \/ JoinBatch

SpecGroup == InitGroup /\ [][NextGroup]_vars

\* the calls that have run recordUsage, and those of them that recorded `success`
Recorders == {k \in 1..Len(calls) : Count(calls[k].trace, "record") > 0}

RecordersOf(success) ==
  {k \in Recorders : \E e \in 1..Len(calls[k].trace) :
     calls[k].trace[e].ev = "record" /\ calls[k].trace[e].success = success}

\* C22: under every interleaving of the calls of one batch group each
\* recordUsage takes effect as a whole: the history holds one record per
\* recordUsage call made, none lost and none duplicated, after the records
\* it held before, and never more than maxHistorySize records.
C22_RecordUsageAtomic ==
  LET made == Cardinality(Recorders)
      n == filled + made
      kept == Min(n, maxHistorySize)
      fresh == {i \in 1..Len(usageHistory) : i > kept - made}
  IN /\ \A k \in Recorders : Count(calls[k].trace, "record") = 1
     /\ Len(usageHistory) = kept
     /\ Len(usageHistory) <= maxHistorySize
     /\ \A i \in 1..(kept - made) : usageHistory[i] = FilledRecord(n - kept + i)
     /\ \A i \in fresh : usageHistory[i].timestamp = now
     /\ \A success \in BOOLEAN :
          Cardinality({i \in fresh : usageHistory[i].success = success})
            = Cardinality(RecordersOf(success))

\* both calls of a group of two have recorded, and the history, one short
\* of its cap before, dropped its oldest record
C22_Witness ==
  /\ mode = "batch"
  /\ Len(batch.group) = 2
  /\ Cardinality(Recorders) = 2
  /\ filled + 2 > maxHistorySize
  /\ Len(usageHistory) = maxHistorySize
  /\ usageHistory[maxHistorySize].timestamp = now
  /\ usageHistory[maxHistorySize - 1].timestamp = now

----------------------------------------------------------------------------
(* analyzeMultipleChannels with any concurrency, under fair scheduling *)

\* the concurrency options of the explored batches, negative ones included
LoopConcurrencyInputs == ConcurrencyInputs \cup {<<-c>> : c \in 1..MaxConcurrency}

NextLoop ==
  \/ \E n \in 0..MaxRequests, p \in AIProvider \cup {None},
        c \in LoopConcurrencyInputs, d \in DelayInputs :
        StartBatch(RequestList(n, 0), p, c, d)
  \/ \E k \in 1..Len(calls) : Invoke(k)
  \/ \E k \in 1..Len(calls) : ProviderReturn(k)
  \/ \E k \in 1..Len(calls) : Finish(k)
  \/ JoinBatch
  \/ RejectBatch
  \/ DelayDone

\* every call that can take a step takes it, every timer fires, every
\* settled promise is joined: the event loop runs whatever is ready
SpecLoop == Init /\ [][NextLoop]_vars /\ WF_vars(NextLoop)

\* C25: analyzeMultipleChannels terminates (returns or rejects) for every
\* finite request list and every concurrency, zero and negatives included,
\* provided every analyzeChannel call completes.
C25_BatchTerminates == (mode = "batch") ~> (batch.pc \in {"done", "thrown"})

----------------------------------------------------------------------------
(* Rate limiter middleware (apps/api/src/middleware/rate-limiter) *)

MaxHits == 6   \* requests the rate limiters handle in one explored run

\* the limiters of the explored runs, by name: three the module exports and
\* the one subscriptionBasedRateLimiter creates for a CREATOR user
Limiters == {"rateLimiter", "authRateLimiter", "analysisRateLimiter", "creatorRateLimiter"}

\* the config each limiter was created with
LimiterConfig(limiter) ==
  CASE limiter = "rateLimiter"         -> [windowMs |-> 15 * 60 * 1000, max |-> 100]
    [] limiter = "authRateLimiter"     -> [windowMs |-> 15 * 60 * 1000, max |-> 5]
    [] limiter = "analysisRateLimiter" -> [windowMs |-> 60 * 60 * 1000, max |-> 20]
    [] limiter = "creatorRateLimiter"  -> [windowMs |-> 60 * 60 * 1000, max |-> 50]

\* subscriptionBasedRateLimiter: the limiter a request is handed to
subscriptionBasedRateLimiter(req) ==
  IF req.user = None THEN "analysisRateLimiter"
  ELSE CASE req.subscriptionStatus = "CREATOR" -> "creatorRateLimiter"
         [] OTHER -> "analysisRateLimiter"

\* a request as a limiter sees it: req.route?.path || req.path, req.user?.id,
\* req.user?.subscriptionStatus, req.ip
Req(path, user, subscriptionStatus) ==
  [path |-> path, user |-> user, subscriptionStatus |-> subscriptionStatus,
   ip |-> "10.0.0.1"]

\* the requests of the explored runs, each with the limiter that handles it:
\* GET /login reaches the app-level rateLimiter before any route and any
\* authentication (index.ts:35); POST /api/auth/login reaches authRateLimiter
\* on the route '/login' (auth.ts:17); POST /api/analysis of an
\* authenticated user reaches subscriptionBasedRateLimiter on the route '/',
\* and the user's subscription may change between two requests
Traffic ==
  {<<"rateLimiter", Req("/login", None, None)>>,
   <<"authRateLimiter", Req("/login", None, None)>>}
  \cup {<<subscriptionBasedRateLimiter(req), req>> :
          req \in {Req("/", "user-1", status) : status \in {"FREE", "CREATOR"}}}

\* `${req.route?.path || req.path}:${identifier}`; no explored path or
\* identifier holds a colon, so the pair stands for the joined string
KeyOf(req) ==
  LET identifier == IF req.user # None THEN req.user
                    ELSE IF req.ip # None THEN req.ip
                    ELSE "anonymous"
  IN <<req.path, identifier>>

\* Number.prototype.toString on an integer: its decimal digits
DigitChar == <<"0", "1", "2", "3", "4", "5", "6", "7", "8", "9">>

RECURSIVE Digits(_)
Digits(n) ==
  IF n < 10 THEN <<DigitChar[n + 1]>>
  ELSE Append(Digits(n \div 10), DigitChar[(n % 10) + 1])

toString(n) == IF n < 0 THEN <<"-">> \o Digits(-n) ELSE Digits(n)

\* variant: the window slides, every hit renews the reset time
incrementSliding(st, key, windowMs, at) ==
  LET resetTime == at + windowMs
      st2 == IF key \notin DOMAIN st \/ st[key].resetTime <= at
               THEN (key :> [count |-> 1, resetTime |-> resetTime]) @@ st
               ELSE [st EXCEPT ![key] = [count |-> @.count + 1, resetTime |-> resetTime]]
  IN [store |-> st2, totalHits |-> st2[key].count,
      timeToReset |-> Max(0, st2[key].resetTime - at)]

\* MemoryStore.increment at instant `at`: the new store and the returned value
increment(st, key, windowMs, at) ==
  LET resetTime == at + windowMs
      st2 == IF key \notin DOMAIN st \/ st[key].resetTime <= at
               THEN (key :> [count |-> 1, resetTime |-> resetTime]) @@ st
               ELSE [st EXCEPT ![key].count = @ + 1]
  IN [store |-> st2, totalHits |-> st2[key].count,
      timeToReset |-> Max(0, st2[key].resetTime - at)]

\* variant: the sweep empties the store
cleanupEverything(st, at) ==
  [k \in {} |-> st[k]]

\* variant: an entry that expires at this very instant is kept
cleanupKeepsBoundary(st, at) ==
  [k \in {j \in DOMAIN st : ~(st[j].resetTime < at)} |-> st[k]]

\* MemoryStore.cleanup at instant `at`
cleanup(st, at) ==
  [k \in {j \in DOMAIN st : ~(st[j].resetTime <= at)} |-> st[k]]

\* variant: one request more than the maximum is let through
RejectsAboveNext(totalHits, max) == totalHits > max + 1

\* variant: the request that reaches the maximum is rejected
RejectsAtMax(totalHits, max) == totalHits >= max

\* if (result.totalHits > config.max) throw
Rejects(totalHits, max) == totalHits > max

\* variant: the difference is not clamped
RemainingUnclamped(max, totalHits) == max - totalHits

\* Math.max(0, config.max - result.totalHits)
Remaining(max, totalHits) == Max(0, max - totalHits)

\* errorHandler: the code and status of the response for an error
errorHandler(name) ==
  CASE name = "ValidationError"   -> [code |-> "VALIDATION_ERROR", status |-> 400]
    [] name = "UnauthorizedError" -> [code |-> "UNAUTHORIZED", status |-> 401]
    [] name = "ForbiddenError"    -> [code |-> "FORBIDDEN", status |-> 403]
    [] name = "NotFoundError"     -> [code |-> "NOT_FOUND", status |-> 404]
    [] name = "RateLimitError"    -> [code |-> "RATE_LIMIT_EXCEEDED", status |-> 429]
    [] OTHER                      -> [code |-> "INTERNAL_ERROR", status |-> 500]

\* the limiter did not answer the request itself
NoResponse == [code |-> None, status |-> 0]

\* the middleware createRateLimiter(config) returns, run on one request
HandleRequest(limiter, req) ==
  LET config == LimiterConfig(limiter)
      key == KeyOf(req)
      result == increment(store, key, config.windowMs, now)
      plain == increment(unswept, key, config.windowMs, now)
      headers == [limit |-> toString(config.max),
                  remaining |-> toString(Remaining(config.max, result.totalHits)),
                  reset |-> now + result.timeToReset]
      thrown == Rejects(result.totalHits, config.max)
  IN /\ served < MaxHits
     /\ served' = served + 1
     /\ store' = result.store
     /\ lastOp' = [op |-> "request", limiter |-> limiter, key |-> key, at |-> now,
                   before |-> IF key \in DOMAIN store THEN <<store[key]>> ELSE <<>>,
                   totalHits |-> result.totalHits, timeToReset |-> result.timeToReset,
                   unsweptBefore |-> IF key \in DOMAIN unswept THEN <<unswept[key]>> ELSE <<>>,
                   unswept |-> [totalHits |-> plain.totalHits,
                                timeToReset |-> plain.timeToReset],
                   headers |-> headers,
                   thrown |-> IF thrown THEN "RateLimitError" ELSE None,
                   nextCalls |-> IF thrown THEN 0 ELSE 1,
                   response |-> IF thrown THEN errorHandler("RateLimitError")
                                ELSE NoResponse]
     /\ windows' =
          LET one == [l \in Limiters |-> IF l = limiter THEN 1 ELSE 0]
              pass == [l \in Limiters |-> IF l = limiter /\ ~thrown THEN 1 ELSE 0]
          IN IF key \in DOMAIN windows /\ now < windows[key].reset
               THEN [windows EXCEPT ![key].n = @ + 1,
                                    ![key].by = [l \in Limiters |-> @[l] + one[l]],
                                    ![key].passed = [l \in Limiters |-> @[l] + pass[l]]]
               ELSE (key :> [reset |-> now + config.windowMs, n |-> 1,
                             by |-> one, passed |-> pass]) @@ windows
     /\ unswept' = plain.store
     /\ UNCHANGED <<analyzerVars, trackerVars, clientVars, apiVars, usageHistory, now>>

\* the interval timer runs store.cleanup()
Cleanup ==
  /\ store' = cleanup(store, now)
  /\ lastOp' = [op |-> "cleanup", at |-> now, before |-> store]
  /\ UNCHANGED <<analyzerVars, trackerVars, clientVars, apiVars, usageHistory, now, served, windows,
                 unswept>>

\* the instants at which the explored runs look at the clock, in ms since
\* the module was loaded
LimiterInstants == {899999, 900000, 3600000}

InitLimiter ==
  /\ openaiService = FALSE
  /\ claudeService = FALSE
  /\ mode = "idle"
  /\ calls = <<>>
  /\ batch = IdleBatch
  /\ delayLog = <<>>
  /\ now = 0
  /\ usageHistory = <<>>
  /\ filled = 0
  /\ recorded = <<>>
  /\ budget = 0
  /\ stats = NoStats
  /\ store = EmptyStore
  /\ served = 0
  /\ lastOp = NoOp
  /\ windows = EmptyStore
  /\ unswept = EmptyStore
  /\ client = NoClient
  /\ rendered = NoRender
  /\ usedQuota = 0
  /\ posts = <<>>

NextLimiter ==
  \/ \E handled \in Traffic : HandleRequest(handled[1], handled[2])
  \/ Cleanup
  \/ \E t \in LimiterInstants : Tick(t)

SpecLimiter == InitLimiter /\ [][NextLimiter]_vars

----------------------------------------------------------------------------
(* Properties of the rate limiter *)

\* C13: the k-th increment for a key within one window returns
\* totalHits = k and leaves the reset time unchanged; the first increment at
\* or after the reset time returns 1 and sets the reset time to the time of
\* that call plus windowMs.
C13_IncrementCountsWindow ==
  lastOp.op = "request" =>
    LET w == windows[lastOp.key]
        entry == store[lastOp.key]
        windowMs == LimiterConfig(lastOp.limiter).windowMs
        inWindow == lastOp.before # <<>> /\ lastOp.at < lastOp.before[1].resetTime
    IN /\ lastOp.totalHits = w.n
       /\ entry.resetTime = w.reset
       /\ inWindow => /\ lastOp.totalHits = lastOp.before[1].count + 1
                      /\ entry.resetTime = lastOp.before[1].resetTime
       /\ ~inWindow => /\ lastOp.totalHits = 1
                       /\ entry.resetTime = lastOp.at + windowMs

\* a key counted three hits in one window and its next request, made at the
\* very instant of the reset time, is counted as the first of a new window
C13_Witness ==
  /\ lastOp.op = "request"
  /\ lastOp.before # <<>>
  /\ lastOp.before[1].count = 3
  /\ lastOp.at = lastOp.before[1].resetTime
  /\ lastOp.totalHits = 1

\* C14: the middleware rejects a request with RateLimitError (answered
\* 429 RATE_LIMIT_EXCEEDED) without calling next() exactly when the hit count
\* of the current window exceeds the limiter's max; otherwise it calls next()
\* exactly once.
C14_RejectsOverMax ==
  lastOp.op = "request" =>
    LET max == LimiterConfig(lastOp.limiter).max
        over == windows[lastOp.key].n > max
    IN /\ over => /\ lastOp.thrown = "RateLimitError"
                  /\ lastOp.response = [code |-> "RATE_LIMIT_EXCEEDED", status |-> 429]
                  /\ lastOp.nextCalls = 0
       /\ ~over => /\ lastOp.thrown = None
                   /\ lastOp.nextCalls = 1

\* the sixth request of a window of authRateLimiter is rejected
C14_Witness ==
  /\ lastOp.op = "request"
  /\ lastOp.limiter = "authRateLimiter"
  /\ lastOp.totalHits = 6
  /\ lastOp.thrown = "RateLimitError"

\* the number a string of decimal digits denotes
RECURSIVE FromDigits(_)
FromDigits(digits) ==
  IF digits = <<>> THEN 0
  ELSE 10 * FromDigits(SubSeq(digits, 1, Len(digits) - 1))
       + (CHOOSE d \in 0..9 : DigitChar[d + 1] = digits[Len(digits)])

\* C15: the X-RateLimit-Remaining header of every response equals
\* max(0, max - totalHits) and is never negative.
C15_RemainingHeader ==
  lastOp.op = "request" =>
    LET max == LimiterConfig(lastOp.limiter).max
        remaining == lastOp.headers.remaining
    IN /\ remaining[1] # "-"
       /\ FromDigits(remaining) = IF lastOp.totalHits >= max THEN 0
                                  ELSE max - lastOp.totalHits

\* a request beyond the maximum is answered with Remaining "0"
C15_Witness ==
  /\ lastOp.op = "request"
  /\ lastOp.totalHits > LimiterConfig(lastOp.limiter).max
  /\ lastOp.headers.remaining = <<"0">>

\* C16: cleanup removes every entry whose reset time is at or before the
\* current time and no other entry; the entries that stay keep their count
\* and reset time.
C16_CleanupRemovesExpired ==
  lastOp.op = "cleanup" =>
    /\ DOMAIN store = {k \in DOMAIN lastOp.before : lastOp.before[k].resetTime > lastOp.at}
    /\ \A k \in DOMAIN store : store[k] = lastOp.before[k]

\* a sweep at the very reset time of one entry removes it and keeps another
C16_Witness ==
  /\ lastOp.op = "cleanup"
  /\ store # EmptyStore
  /\ \E k \in DOMAIN lastOp.before :
       /\ lastOp.before[k].resetTime = lastOp.at
       /\ k \notin DOMAIN store


\* C27: for one rate limiter and one key at most `max` requests are passed
\* on to next() within one window, whatever the sequence and timing of the
\* requests; a rejected request is counted and leaves the window as it was.
C27_AtMostMaxPerWindow ==
  /\ \A key \in DOMAIN windows : \A limiter \in Limiters :
       windows[key].passed[limiter] <= LimiterConfig(limiter).max
  /\ (lastOp.op = "request" /\ lastOp.thrown # None) =>
       /\ lastOp.before # <<>>
       /\ lastOp.at < lastOp.before[1].resetTime
       /\ store[lastOp.key].count = lastOp.before[1].count + 1
       /\ store[lastOp.key].resetTime = lastOp.before[1].resetTime

\* authRateLimiter passed five requests of one key on, and rejected the
\* next one a millisecond before the window ends
C27_Witness ==
  /\ lastOp.op = "request"
  /\ lastOp.limiter = "authRateLimiter"
  /\ windows[lastOp.key].passed["authRateLimiter"] = 5
  /\ windows[lastOp.key].by["authRateLimiter"] = 6
  /\ lastOp.thrown = "RateLimitError"
  /\ lastOp.at = lastOp.before[1].resetTime - 1

\* C28: the sweep is invisible to the callers: every increment returns the
\* totalHits and timeToReset it would have returned had cleanup never run.
C28_SweepInvisible ==
  lastOp.op = "request" =>
    /\ lastOp.totalHits = lastOp.unswept.totalHits
    /\ lastOp.timeToReset = lastOp.unswept.timeToReset

\* a request on a key whose expired entry the sweep had removed: the store
\* that was never swept still held the entry
C28_Witness ==
  /\ lastOp.op = "request"
  /\ lastOp.before = <<>>
  /\ lastOp.unsweptBefore # <<>>
  /\ lastOp.unsweptBefore[1].count > 1
  /\ lastOp.totalHits = 1

\* C29: each limiter counts only the requests it handled itself: the hit
\* count a limiter reports for a caller is the number of requests of the
\* current window that this limiter handled, whatever passed through the
\* other limiters.
C29_CountsOwnRequests ==
  lastOp.op = "request" =>
    lastOp.totalHits = windows[lastOp.key].by[lastOp.limiter]

----------------------------------------------------------------------------
(* Provider clients: the answer of the external API and its validation *)

Sections == {"strengths", "weaknesses", "opportunities", "scores"}

\* A JSON value of the generated text, as far as the client looks at it:
\* t is "absent" (the property is not there: undefined), "null", "number"
\* (n tenths), "text" (a string that is no numeral) or "object"; an object
\* carries the raw score and the raw list its leaf fields hold.
Absent == [t |-> "absent", n |-> 0]
JNull == [t |-> "null", n |-> 0]
Num(tenths) == [t |-> "number", n |-> tenths]
Text == [t |-> "text", n |-> 0]

\* raw scores of the explored answers: 72, 150, -20, 72.5, "high", null, undefined
RawScores == {Num(720), Num(1500), Num(-200), Num(725), Text, JNull, Absent}

\* raw lists of the explored answers: not an array, or an array of len items
RawLists == {[array |-> FALSE, len |-> 0], [array |-> TRUE, len |-> 1],
             [array |-> TRUE, len |-> 3]}

\* a top-level section
Section(t, score, list) == [t |-> t, score |-> score, list |-> list]

\* the JSON object of an answer whose section `odd` has kind t
AnswerObject(odd, t, score, list, contentStrategy) ==
  LET Sec(name) == Section(IF name = odd THEN t ELSE "object", score, list)
  IN [strengths |-> Sec("strengths"), weaknesses |-> Sec("weaknesses"),
      opportunities |-> Sec("opportunities"), scores |-> Sec("scores"),
      contentStrategy |-> contentStrategy]

\* the object {}
EmptyObject == AnswerObject("none", "object", Absent, [array |-> FALSE, len |-> 0], FALSE)

AnswerObjects ==
  {AnswerObject(odd, t, score, list, cs) :
     odd \in Sections, t \in {"object", "absent", "null"}, score \in RawScores,
     list \in RawLists, cs \in BOOLEAN}

\* The generated text is a sequence of segments: prose without braces, a
\* complete JSON object, or a fragment (a JSON object cut off after a nested
\* closing brace).
Prose == [kind |-> "prose", value |-> EmptyObject]
Object(o) == [kind |-> "object", value |-> o]
Fragment == [kind |-> "fragment", value |-> EmptyObject]

\* the texts of the explored answers
Texts ==
  UNION {{<<Object(o)>>, <<Prose, Object(o), Prose>>, <<Object(o), Prose, Object(EmptyObject)>>} :
           o \in AnswerObjects}
  \cup {<<Prose>>, <<Fragment>>}

\* what the external API answers to the one HTTP call
Answers ==
  {[status |-> "ok", text |-> t, usage |-> u] : t \in Texts, u \in ExternalUsages}
  \cup {[status |-> st, text |-> <<>>, usage |-> <<0, 0>>] :
          st \in {"http_error", "network_error", "bad_body"}}

\* JSON.parse(text)
parseJSON(text) ==
  IF Len(text) = 1 /\ text[1].kind = "object" THEN Ok(text[1].value)
  ELSE Err("Unexpected token")

\* content.match(/\{[\s\S]*\}/): from the first "{" to the last "}", or <<>>
matchBraces(text) ==
  LET braced == {i \in 1..Len(text) : text[i].kind \in {"object", "fragment"}}
  IN IF braced = {} THEN <<>>
     ELSE SubSeq(text, CHOOSE i \in braced : \A j \in braced : i <= j,
                       CHOOSE i \in braced : \A j \in braced : i >= j)

\* the JSON value parseAnalysisResponse works on
extractJSON(provider, content) ==
  IF provider = "openai" THEN parseJSON(content)
  ELSE IF matchBraces(content) = <<>> THEN Err("No JSON found in response")
  ELSE parseJSON(matchBraces(content))

\* truthiness of a JSON value
Truthy(v) == v.t = "object" \/ v.t = "text" \/ (v.t = "number" /\ v.n # 0)

\* Number(score): NaN, or the number in tenths
Number(score) ==
  CASE score.t = "number" -> [nan |-> FALSE, tenths |-> score.n]
    [] score.t = "null"   -> [nan |-> FALSE, tenths |-> 0]
    [] OTHER              -> [nan |-> TRUE, tenths |-> 0]

\* Math.round of a number given in tenths
RoundTenths(tenths) == (tenths + 5) \div 10

\* variant: the rounded score is not clamped
validateScoreUnclamped(score) ==
  LET num == Number(score)
  IN IF num.nan THEN 0 ELSE RoundTenths(num.tenths)

\* validateScore
validateScore(score) ==
  LET num == Number(score)
  IN IF num.nan THEN 0 ELSE Max(0, Min(100, RoundTenths(num.tenths)))

\* Array.isArray(x) ? x : [], as the length of the resulting array
ArrayOrEmpty(list) == IF list.array THEN list.len ELSE 0

FailedToParse(provider) ==
  IF provider = "openai" THEN "Failed to parse AI response"
  ELSE "Failed to parse Claude response"

\* parseAnalysisResponse: the AnalysisResult before its metadata is filled in
parseAnalysisResponse(provider, content) ==
  LET json == extractJSON(provider, content)
  IN IF ~json.ok THEN Err(FailedToParse(provider))
     ELSE LET parsed == json.value
          IN IF \E name \in Sections : ~Truthy(parsed[name])
               THEN Err(FailedToParse(provider))
               ELSE Ok([strengths |-> [details |-> ArrayOrEmpty(parsed.strengths.list),
                                       score |-> validateScore(parsed.strengths.score)],
                        weaknesses |-> [details |-> ArrayOrEmpty(parsed.weaknesses.list),
                                        areas |-> ArrayOrEmpty(parsed.weaknesses.list)],
                        opportunities |->
                          [recommendations |-> ArrayOrEmpty(parsed.opportunities.list)],
                        contentStrategy |-> parsed.contentStrategy,
                        scores |-> [overall |-> validateScore(parsed.scores.score),
                                    contentQuality |-> validateScore(parsed.scores.score),
                                    engagement |-> validateScore(parsed.scores.score),
                                    growthPotential |-> validateScore(parsed.scores.score)],
                        confidence |-> 0])

\* calculateConfidence, in hundredths
calculateConfidence(provider, result) ==
  LET base == IF provider = "openai" THEN 50 ELSE 60
      small == IF provider = "openai" THEN 10 ELSE 5
  IN Min(100, base
              + (IF result.strengths.details >= 3 THEN 10 ELSE 0)
              + (IF result.weaknesses.details >= 2 THEN 10 ELSE 0)
              + (IF result.opportunities.recommendations >= 1 THEN 10 ELSE 0)
              + (IF result.scores.overall > 0 THEN small ELSE 0)
              + (IF result.contentStrategy THEN small ELSE 0))

\* analyzeChannel of a provider client from the answer of the external call
\* on: makeAPICall, parseAnalysisResponse, cost and confidence
ProviderClientAnswer(provider, request, model, answer) ==
  CASE answer.status = "http_error" -> ProviderFailure(provider, request, "API Error")
    [] answer.status = "network_error" -> ProviderFailure(provider, request, "fetch failed")
    [] answer.status = "bad_body" ->
         ProviderFailure(provider, request, "Cannot read properties of undefined")
    [] OTHER ->
         LET parsed == parseAnalysisResponse(provider, answer.text)
         IN IF ~parsed.ok THEN ProviderFailure(provider, request, parsed.error)
            ELSE [data |-> [parsed.value EXCEPT
                              !.confidence = calculateConfidence(provider, parsed.value)]]
                 @@ ProviderSuccess(provider, request, model, answer.usage)

----------------------------------------------------------------------------
(* A caller of one provider client *)

\* the clients that exist
ClientProviders == {"openai", "claude"}

\* the analysis types and model ids of the explored calls
ClientTypes == {"QUICK_SCAN", "DEEP_DIVE", "NO_SUCH_TYPE"}
ClientModels == {None, "gpt-3.5-turbo", "claude-3-haiku", "no-such-model"}

\* the default value of the parameter `model`
defaultClientModel(provider) ==
  IF provider = "openai" THEN "gpt-4-turbo" ELSE "claude-3-sonnet"

NoAnswer == [status |-> "none", text |-> <<>>, usage |-> <<0, 0>>]

\* a caller calls analyzeChannel(request, model) of a provider client; the
\* call runs up to its external call or to its failure return
ClientCall(provider, analysisType, model) ==
  LET request == Request(1, analysisType)
      used == IF model = None THEN defaultClientModel(provider) ELSE model
      start == ProviderClientStart(provider, request, used)
  IN /\ client.pc = "idle"
     /\ client' = [pc |-> IF start.ok THEN "fetching" ELSE "returned",
                   provider |-> provider, request |-> request, model |-> used,
                   externalCalls |-> IF start.ok THEN 1 ELSE 0,
                   answer |-> NoAnswer,
                   rejected |-> FALSE,
                   result |-> IF start.ok THEN NoResult
                              ELSE ProviderFailure(provider, request, start.error)]
     /\ UNCHANGED <<analyzerVars, trackerVars, limiterVars, apiVars, usageHistory, now>>

\* the external API answers and the call returns
ClientAnswer(answer) ==
  /\ client.pc = "fetching"
  /\ client' = [client EXCEPT
                  !.pc = "returned",
                  !.answer = answer,
                  !.result = ProviderClientAnswer(client.provider, client.request,
                                                  client.model, answer)]
  /\ UNCHANGED <<analyzerVars, trackerVars, limiterVars, apiVars, usageHistory, now>>

InitClient ==
  /\ openaiService = FALSE
  /\ claudeService = FALSE
  /\ mode = "idle"
  /\ calls = <<>>
  /\ batch = IdleBatch
  /\ delayLog = <<>>
  /\ now = 0
  /\ usageHistory = <<>>
  /\ filled = 0
  /\ recorded = <<>>
  /\ budget = 0
  /\ stats = NoStats
  /\ store = EmptyStore
  /\ served = 0
  /\ lastOp = NoOp
  /\ windows = EmptyStore
  /\ unswept = EmptyStore
  /\ client = NoClient
  /\ rendered = NoRender
  /\ usedQuota = 0
  /\ posts = <<>>

NextClient ==
  \/ \E p \in ClientProviders, t \in ClientTypes, m \in ClientModels : ClientCall(p, t, m)
  \/ \E a \in Answers : ClientAnswer(a)

SpecClient == InitClient /\ [][NextClient]_vars

----------------------------------------------------------------------------
(* Properties of the provider clients *)

\* the text holds no JSON object with the four sections as objects
Malformed(text) ==
  ~\E i \in 1..Len(text) :
     /\ text[i].kind = "object"
     /\ \A name \in Sections : text[i].value[name].t = "object"

\* C17: analyzeChannel of a provider client never raises; for an unknown
\* analysis type, an unsupported model, a non-success transport response or
\* a malformed answer it returns a result tagged success = false with
\* tokensUsed = 0, costCents = 0 and the provider's own name.
C17_ClientNeverRaises ==
  client.pc = "returned" =>
    /\ ~client.rejected
    /\ (\/ client.request.analysisType \notin AnalysisTypes
        \/ ~getModelConfig(client.provider, client.model)
        \/ client.answer.status # "ok"
        \/ Malformed(client.answer.text))
       => /\ client.result.success = FALSE
          /\ client.result.tokensUsed = 0
          /\ client.result.costCents = 0
          /\ client.result.provider = client.provider

\* the Claude client returned a failure for a non-success transport response
C17_Witness ==
  /\ client.pc = "returned"
  /\ client.provider = "claude"
  /\ client.answer.status = "http_error"
  /\ client.result.success = FALSE
  /\ client.result.provider = "claude"

\* C18: the validation of the answer fails exactly when the returned text
\* contains no JSON object or one of the four sections strengths,
\* weaknesses, opportunities, scores is missing; with all four present the
\* call succeeds whatever the leaf fields contain.
C18_FailsOnlyWithoutSections ==
  (client.pc = "returned" /\ client.answer.status = "ok") =>
    (client.result.success <=> ~Malformed(client.answer.text))

\* C19: every score of a successful provider client result is an integer
\* in [0,100] and the confidence is in [0,1]: 150 gives 100, a negative
\* score gives 0, a non-numeric score gives 0.
C19_ScoresInRange ==
  (client.pc = "returned" /\ client.result.success) =>
    LET data == client.result.data
        raw == client.answer.text[CHOOSE i \in 1..Len(client.answer.text) :
                                    client.answer.text[i].kind = "object"].value
        all == {data.strengths.score, data.scores.overall, data.scores.contentQuality,
                data.scores.engagement, data.scores.growthPotential}
    IN /\ all \subseteq 0..100
       /\ data.confidence \in 0..100
       /\ raw.scores.score = Num(1500) => data.scores.overall = 100
       /\ raw.scores.score = Num(-200) => data.scores.overall = 0
       /\ raw.scores.score \in {Text, Absent} => data.scores.overall = 0
       /\ raw.scores.score = Num(725) => data.scores.overall = 73
       /\ raw.scores.score = Num(720) => data.scores.overall = 72

\* a successful result whose raw score was 150
C19_Witness ==
  /\ client.pc = "returned"
  /\ client.result.success
  /\ client.answer.text[1].kind = "object"
  /\ client.answer.text[1].value.scores.score = Num(1500)
  /\ client.result.data.scores.overall = 100
  /\ client.result.data.confidence = 100

\* C20: a call with a model id that has no ModelConfig returns an
\* "Unsupported model" failure without any external call, and every call
\* makes at most one external call.
C20_NoCallForUnsupportedModel ==
  client.pc # "idle" =>
    /\ client.externalCalls <= 1
    /\ ~getModelConfig(client.provider, client.model) =>
         /\ client.externalCalls = 0
         /\ client.pc = "returned"
         /\ client.result.success = FALSE
         /\ client.request.analysisType \in AnalysisTypes
              => client.result.message = "Unsupported model"

\* the OpenAI client was handed a Claude model id
C20_Witness ==
  /\ client.pc = "returned"
  /\ client.provider = "openai"
  /\ client.model = "claude-3-haiku"
  /\ client.request.analysisType = "QUICK_SCAN"
  /\ client.result.message = "Unsupported model"
  /\ client.externalCalls = 0

----------------------------------------------------------------------------
(* PromptTemplates.replaceVariables (packages/ai-services/src/prompts.ts) *)

MaxTokens == 4   \* tokens of an explored template

\* A template is a sequence of tokens: literal text, {{name}}, {{#if name}},
\* {{/if}}, {{#each name}}, {{/each}}. Rendered text is a sequence of the
\* same tokens; a token no pass replaced stays in it as dead text.
Lit(text) == [kind |-> "text", name |-> text]
Var(name) == [kind |-> "var", name |-> name]
IfOpen(name) == [kind |-> "if", name |-> name]
IfClose == [kind |-> "endif", name |-> None]
EachOpen(name) == [kind |-> "each", name |-> name]
EachClose == [kind |-> "endeach", name |-> None]

\* the values of a variable: a string, null, an array
TextValue(text) == [kind |-> "text", text |-> text, items |-> <<>>]
NullValue == [kind |-> "null", text |-> None, items |-> <<>>]
ListValue(items) == [kind |-> "list", text |-> None, items |-> items]

\* the elements of the explored arrays: two videos, and null
NullItem == [null |-> TRUE, fields |-> <<>>]
Item(fields) == [null |-> FALSE, fields |-> fields]
Video1 == Item(("title" :> "First video"))
Video2 == Item(("title" :> "Second video") @@ ("publishedAt" :> "2021-05-01"))

\* the tokens of the explored templates (prompts.ts:73-80)
Tokens ==
  {Lit("- "), Var("title"), Var("publishedAt"), IfOpen("recentVideos"), IfClose,
   EachOpen("recentVideos"), EachClose}

RECURSIVE SeqsUpTo(_, _)
SeqsUpTo(S, n) ==
  IF n = 0 THEN {<<>>}
  ELSE LET shorter == SeqsUpTo(S, n - 1)
       IN shorter \cup {Append(t, x) : t \in shorter, x \in S}

TemplateInputs == SeqsUpTo(Tokens, MaxTokens)

\* the variables of the explored calls: each name is absent or has a value
VariableInputs ==
  LET choices(name) ==
        CASE name = "title" -> {<<>>, <<TextValue("My channel")>>}
          [] name = "publishedAt" -> {<<>>, <<TextValue("2019-03-01")>>}
          [] name = "recentVideos" ->
               {<<>>, <<NullValue>>, <<TextValue("none")>>, <<ListValue(<<>>)>>,
                <<ListValue(<<Video1>>)>>, <<ListValue(<<Video2, Video1>>)>>,
                <<ListValue(<<NullItem>>)>>}
      names == {"title", "publishedAt", "recentVideos"}
  IN {[n \in {m \in names : opt[m] # <<>>} |-> opt[n][1]] :
        opt \in {f \in [names -> UNION {choices(n) : n \in names}] :
                   \A n \in names : f[n] \in choices(n)}}

\* String(value), as text tokens
StringOf(value) ==
  CASE value.kind = "text" -> <<Lit(value.text)>>
    [] value.kind = "null" -> <<Lit("null")>>
    [] value.kind = "list" ->
         [i \in 1..(2 * Len(value.items) - 1) |->
            IF i % 2 = 0 THEN Lit(",")
            ELSE IF value.items[(i + 1) \div 2].null THEN Lit("")
            ELSE Lit("[object Object]")]

\* variables[varName] is truthy
IsTruthy(variables, name) ==
  /\ name \in DOMAIN variables
  /\ variables[name].kind # "null"

\* Array.isArray(variables[varName])
IsArray(variables, name) ==
  /\ name \in DOMAIN variables
  /\ variables[name].kind = "list"

\* position of the first token of a kind at or after `from`, 0 if none
FirstOf(tokens, kind, from) ==
  IF \E j \in from..Len(tokens) : tokens[j].kind = kind
    THEN CHOOSE j \in from..Len(tokens) :
           tokens[j].kind = kind /\ \A i \in from..(j - 1) : tokens[i].kind # kind
    ELSE 0

\* prompts.ts:283-286: every {{key}} of a key of `fields` becomes String(value)
RECURSIVE substitute(_, _)
substitute(tokens, fields) ==
  IF tokens = <<>> THEN <<>>
  ELSE LET t == Head(tokens)
       IN (IF t.kind = "var" /\ t.name \in DOMAIN fields
             THEN StringOf(fields[t.name]) ELSE <<t>>)
          \o substitute(Tail(tokens), fields)

\* prompts.ts:289-291: each {{#if x}} up to the nearest {{/if}} becomes its
\* content, or nothing; the scan goes on after the match
RECURSIVE replaceIf(_, _)
replaceIf(tokens, variables) ==
  IF tokens = <<>> THEN <<>>
  ELSE LET close == FirstOf(tokens, "endif", 2)
       IN IF Head(tokens).kind = "if" /\ close # 0
            THEN (IF IsTruthy(variables, Head(tokens).name)
                    THEN SubSeq(tokens, 2, close - 1) ELSE <<>>)
                 \o replaceIf(SubSeq(tokens, close + 1, Len(tokens)), variables)
            ELSE <<Head(tokens)>> \o replaceIf(Tail(tokens), variables)

\* prompts.ts:298-305: the body once per element, with the element's own
\* properties substituted; Object.entries(null) throws a TypeError
RECURSIVE mapItems(_, _)
mapItems(body, items) ==
  IF items = <<>> THEN Ok(<<>>)
  ELSE IF Head(items).null THEN Err("TypeError")
  ELSE LET rest == mapItems(body, Tail(items))
           fields == [f \in DOMAIN Head(items).fields |-> TextValue(Head(items).fields[f])]
       IN IF ~rest.ok THEN rest
          ELSE Ok(substitute(body, fields) \o rest.value)

\* variant: a block whose variable is not an array keeps its body
eachBlockKeepsBody(body, variables, name) ==
  IF ~IsArray(variables, name) THEN Ok(body)
  ELSE mapItems(body, variables[name].items)

\* prompts.ts:295-306: what one {{#each name}}body{{/each}} is replaced by
eachBlock(body, variables, name) ==
  IF ~IsArray(variables, name) THEN Ok(<<>>)
  ELSE mapItems(body, variables[name].items)

\* prompts.ts:294-307: each {{#each x}} up to the nearest {{/each}} is
\* replaced; the scan goes on after the match
RECURSIVE replaceEach(_, _)
replaceEach(tokens, variables) ==
  IF tokens = <<>> THEN Ok(<<>>)
  ELSE LET close == FirstOf(tokens, "endeach", 2)
       IN IF Head(tokens).kind = "each" /\ close # 0
            THEN LET block == eachBlock(SubSeq(tokens, 2, close - 1), variables,
                                        Head(tokens).name)
                     rest == replaceEach(SubSeq(tokens, close + 1, Len(tokens)), variables)
                 IN IF ~block.ok THEN block
                    ELSE IF ~rest.ok THEN rest
                    ELSE Ok(block.value \o rest.value)
            ELSE LET rest == replaceEach(Tail(tokens), variables)
                 IN IF ~rest.ok THEN rest ELSE Ok(<<Head(tokens)>> \o rest.value)

\* PromptTemplates.replaceVariables: the three passes in the order of the code
replaceVariables(template, variables) ==
  replaceEach(replaceIf(substitute(template, variables), variables), variables)

\* a caller renders a template
Render(template, variables) ==
  /\ rendered' = [template |-> template, variables |-> variables,
                  result |-> replaceVariables(template, variables), called |-> TRUE]
  /\ UNCHANGED <<analyzerVars, trackerVars, limiterVars, clientVars, usageHistory, now,
                 usedQuota, posts>>

InitPrompt ==
  /\ openaiService = FALSE
  /\ claudeService = FALSE
  /\ mode = "idle"
  /\ calls = <<>>
  /\ batch = IdleBatch
  /\ delayLog = <<>>
  /\ now = 0
  /\ usageHistory = <<>>
  /\ filled = 0
  /\ recorded = <<>>
  /\ budget = 0
  /\ stats = NoStats
  /\ store = EmptyStore
  /\ served = 0
  /\ lastOp = NoOp
  /\ windows = EmptyStore
  /\ unswept = EmptyStore
  /\ client = NoClient
  /\ rendered = NoRender
  /\ usedQuota = 0
  /\ posts = <<>>

\* a run follows one call
NextPrompt ==
  /\ ~rendered.called
  /\ \E t \in TemplateInputs, v \in VariableInputs : Render(t, v)

SpecPrompt == InitPrompt /\ [][NextPrompt]_vars

----------------------------------------------------------------------------
(* Properties of the prompt templates *)

\* is position i of the template inside the body of an {{#each}} block
InLoopBody(tokens, i) ==
  /\ \E a \in 1..(i - 1) :
       /\ tokens[a].kind = "each"
       /\ \A j \in (a + 1)..(i - 1) : tokens[j].kind # "endeach"
  /\ tokens[i].kind # "endeach"
  /\ \E b \in (i + 1)..Len(tokens) : tokens[b].kind = "endeach"

\* a first pass that leaves the loop bodies alone
RECURSIVE SubstituteOutside(_, _, _)
SubstituteOutside(tokens, variables, i) ==
  IF i > Len(tokens) THEN <<>>
  ELSE (IF InLoopBody(tokens, i) THEN <<tokens[i]>>
        ELSE substitute(<<tokens[i]>>, variables))
       \o SubstituteOutside(tokens, variables, i + 1)

\* C23: loop bodies have their own scope: the top-level substitution does
\* not touch the tokens inside an {{#each}} body, so the rendered text is
\* the one obtained when only the tokens outside loop bodies get top-level
\* values and a {{field}} in a body gets the current element's field only.
C23_LoopBodyScoped ==
  rendered.called =>
    rendered.result =
      replaceEach(replaceIf(SubstituteOutside(rendered.template, rendered.variables, 1),
                            rendered.variables),
                  rendered.variables)

\* the template with every {{#each}}...{{/each}} block cut out
RECURSIVE WithoutBlocks(_)
WithoutBlocks(tokens) ==
  IF tokens = <<>> THEN <<>>
  ELSE LET close == FirstOf(tokens, "endeach", 2)
       IN IF Head(tokens).kind = "each" /\ close # 0
            THEN WithoutBlocks(SubSeq(tokens, close + 1, Len(tokens)))
            ELSE <<Head(tokens)>> \o WithoutBlocks(Tail(tokens))

HasBlock(tokens) ==
  \E a \in 1..Len(tokens) : tokens[a].kind = "each" /\ FirstOf(tokens, "endeach", a + 1) # 0

NoConditional(tokens) == \A i \in 1..Len(tokens) : tokens[i].kind \notin {"if", "endif"}

\* C24: when the variable an {{#each}} block names is absent or is not an
\* array, rendering raises no error and replaces the whole block by empty
\* text; the text outside the block is rendered as usual.
C24_MissingArrayRemovesBlock ==
  (/\ rendered.called
   /\ HasBlock(rendered.template)
   /\ NoConditional(rendered.template)
   /\ ~IsArray(rendered.variables, "recentVideos"))
  => /\ rendered.result.ok
     /\ rendered.result.value
          = substitute(WithoutBlocks(rendered.template), rendered.variables)

\* a block over a variable that is a string was removed, the {{publishedAt}}
\* before it rendered
C24_Witness ==
  /\ rendered.called
  /\ rendered.template = <<Var("publishedAt"), EachOpen("recentVideos"), Var("title"), EachClose>>
  /\ "recentVideos" \in DOMAIN rendered.variables
  /\ rendered.variables["recentVideos"] = TextValue("none")
  /\ "publishedAt" \in DOMAIN rendered.variables
  /\ rendered.result = Ok(<<Lit("2019-03-01")>>)

----------------------------------------------------------------------------
(* POST /api/analysis and the user's quota (apps/api) *)

MaxPosts == 3       \* POST /api/analysis requests of one explored run
monthlyQuota == 2   \* User.monthlyQuota of the user of the explored runs

\* the bodies of the explored requests: is the body valid, does the channel exist
BodyInputs == [valid : BOOLEAN, channelExists : BOOLEAN]

\* a request that has been received: it awaits verifyJWTToken and
\* UserQueries.findById inside authMiddleware (part_001:29-32)
Received(body) ==
  [pc |-> "findUser", body |-> body,
   quotaInfo |-> [monthly |-> 0, used |-> 0, remaining |-> 0],
   status |-> 0, code |-> None]

\* the request has been answered
Answered(post, status, code) == [post EXCEPT !.pc = "answered", !.status = status, !.code = code]

\* a client sends POST /api/analysis with a valid token
Arrive(body) ==
  /\ Len(posts) < MaxPosts
  /\ posts' = Append(posts, Received(body))
  /\ UNCHANGED <<analyzerVars, trackerVars, limiterVars, clientVars, usageHistory, now,
                 rendered, usedQuota>>

\* requireQuota(quotaNeeded) lets the request through (part_001:103-105)
HasQuota(quotaInfo, quotaNeeded) == ~(quotaInfo.remaining < quotaNeeded)

\* UserQueries.findById resolved: authMiddleware copies the stored quota into
\* req.user.quotaInfo (part_001:37-52); then, in the same turn, requireQuota(1)
\* and the head of the handler up to its first await (error-handler.ts:123-146)
FindUser(k) ==
  /\ k \in 1..Len(posts)
  /\ posts[k].pc = "findUser"
  /\ LET quotaInfo == [monthly |-> monthlyQuota, used |-> usedQuota,
                       remaining |-> Max(0, monthlyQuota - usedQuota)]
         post == [posts[k] EXCEPT !.quotaInfo = quotaInfo]
         error == errorHandler(IF ~HasQuota(quotaInfo, 1) THEN "ForbiddenError"
                               ELSE "ValidationError")
     IN posts' = [posts EXCEPT ![k] =
                    IF ~HasQuota(quotaInfo, 1) \/ ~post.body.valid
                      THEN Answered(post, error.status, error.code)
                      ELSE [post EXCEPT !.pc = "findChannel"]]
  /\ UNCHANGED <<analyzerVars, trackerVars, limiterVars, clientVars, usageHistory, now,
                 rendered, usedQuota>>

\* ChannelQueries.findById resolved (error-handler.ts:146-156); the handler
\* goes on to await AnalysisQueries.create
FindChannel(k) ==
  /\ k \in 1..Len(posts)
  /\ posts[k].pc = "findChannel"
  /\ LET error == errorHandler("NotFoundError")
     IN posts' = [posts EXCEPT ![k] =
                    IF ~posts[k].body.channelExists
                      THEN Answered(posts[k], error.status, error.code)
                      ELSE [posts[k] EXCEPT !.pc = "create"]]
  /\ UNCHANGED <<analyzerVars, trackerVars, limiterVars, clientVars, usageHistory, now,
                 rendered, usedQuota>>

\* AnalysisQueries.create resolved; the background analysis is started and
\* UserQueries.updateQuota is called (error-handler.ts:152-162)
CreateAnalysis(k) ==
  /\ k \in 1..Len(posts)
  /\ posts[k].pc = "create"
  /\ posts' = [posts EXCEPT ![k].pc = "updateQuota"]
  /\ UNCHANGED <<analyzerVars, trackerVars, limiterVars, clientVars, usageHistory, now,
                 rendered, usedQuota>>

\* UserQueries.updateQuota: data: { usedQuota: quotaUsed } (queries.ts:36-41)
updateQuota(stored, quotaUsed) == quotaUsed

\* the database runs the update of updateQuota(userId, quotaInfo.used + 1);
\* the handler goes on to await ChannelQueries.updateAnalysisCount
UpdateQuota(k) ==
  /\ k \in 1..Len(posts)
  /\ posts[k].pc = "updateQuota"
  /\ usedQuota' = updateQuota(usedQuota, posts[k].quotaInfo.used + 1)
  /\ posts' = [posts EXCEPT ![k].pc = "updateCount"]
  /\ UNCHANGED <<analyzerVars, trackerVars, limiterVars, clientVars, usageHistory, now,
                 rendered>>

\* updateAnalysisCount resolved; res.status(201).json(response)
Respond(k) ==
  /\ k \in 1..Len(posts)
  /\ posts[k].pc = "updateCount"
  /\ posts' = [posts EXCEPT ![k] = Answered(posts[k], 201, None)]
  /\ UNCHANGED <<analyzerVars, trackerVars, limiterVars, clientVars, usageHistory, now,
                 rendered, usedQuota>>

InitQuota ==
  /\ openaiService = FALSE
  /\ claudeService = FALSE
  /\ mode = "idle"
  /\ calls = <<>>
  /\ batch = IdleBatch
  /\ delayLog = <<>>
  /\ now = 0
  /\ usageHistory = <<>>
  /\ filled = 0
  /\ recorded = <<>>
  /\ budget = 0
  /\ stats = NoStats
  /\ store = EmptyStore
  /\ served = 0
  /\ lastOp = NoOp
  /\ windows = EmptyStore
  /\ unswept = EmptyStore
  /\ client = NoClient
  /\ rendered = NoRender
  /\ usedQuota = 0
  /\ posts = <<>>

NextQuota ==
  \/ \E body \in BodyInputs : Arrive(body)
  \/ \E k \in 1..Len(posts) : FindUser(k)
  \/ \E k \in 1..Len(posts) : FindChannel(k)
  \/ \E k \in 1..Len(posts) : CreateAnalysis(k)
  \/ \E k \in 1..Len(posts) : UpdateQuota(k)
  \/ \E k \in 1..Len(posts) : Respond(k)

SpecQuota == InitQuota /\ [][NextQuota]_vars

----------------------------------------------------------------------------
(* Properties of the quota *)

\* the requests answered 201
Accepted == {k \in 1..Len(posts) : posts[k].pc = "answered" /\ posts[k].status = 201}

\* C30: every accepted POST /api/analysis raises the stored usedQuota by
\* exactly 1, also when requests are handled concurrently: once every
\* request has been answered the stored usedQuota has grown by the number of
\* accepted requests, and no more requests were accepted than the quota admits.
C30_QuotaCountsAccepted ==
  (\A k \in 1..Len(posts) : posts[k].pc = "answered") =>
    /\ usedQuota = Cardinality(Accepted)
    /\ Cardinality(Accepted) <= monthlyQuota

====
